---- MODULE Spec2Model ----
(***************************************************************************)
(* The three satisfiability engines of SAT_algorithms: resolution()        *)
(* (src/resolution.py), davis_putnam() (src/dp.py) and dpll()              *)
(* (src/dpll.py), each run on one CNF formula.                             *)
(*                                                                         *)
(* A literal is a nonzero integer, a clause a sequence of literals (a      *)
(* Python list), a formula a sequence of clauses.  A Python dict used as   *)
(* an assignment is modelled by its key set: the code only inserts keys    *)
(* with the value True and tests membership.                               *)
(***************************************************************************)
EXTENDS Integers, Sequences, FiniteSets

VARIABLES
    input,              \* the formula handed to the engine
    engine,             \* which engine runs: "resolution", "dp" or "dpll"
    pc,                 \* "loop" | "call" | "frame" | "return" | "done" | "fault"
    clauses,            \* resolution()/davis_putnam(): the local list `clauses`
    clause_set,         \* resolution(): the local set `clause_set`
    previous_clauses,   \* davis_putnam(): the local set `previous_clauses`
    final_assignment,   \* davis_putnam(): the keys of `final_assignment`
    rounds,             \* completed iterations of the engine's while loop
    stack,              \* dpll(): the active calls, innermost last
    arg,                \* dpll(): the formula a pending call receives
    ret,                \* dpll(): the pair a call has just returned
    unit_assignments,   \* dpll(): `unit_assignments` of the call that ran last
    chosen,             \* dpll(): evaluations of choose_literal so far
    result              \* the engine's return value once pc = "done"

vars == <<input, engine, pc, clauses, clause_set, previous_clauses,
          final_assignment, rounds, stack, arg, ret, unit_assignments, chosen,
          result>>

(***************************************************************************)
(* Bounds of the explored inputs.                                          *)
(***************************************************************************)
NumVars == 3        \* variables 1..NumVars
MaxWidth == 2       \* literals per input clause
MaxClauses == 3     \* clauses per input formula
PairWidth == 3      \* literals per clause handed to find_resolvents alone

Lits == {l \in (0 - NumVars)..NumVars : l # 0}

Abs(l) == IF l < 0 THEN 0 - l ELSE l

\* Python's None where a formula is expected (no formula holds the clause <<0>>).
None == << <<0>> >>

\* src/dpll.py negate
negate(literal) == 0 - literal

Range(s) == {s[i] : i \in 1..Len(s)}

\* `x in clause` for a list
In(x, s) == \E i \in 1..Len(s) : s[i] = x

\* every literal occurring in a formula
LitsOf(f) == UNION {Range(f[i]) : i \in 1..Len(f)}

VarsOf(f) == {Abs(l) : l \in LitsOf(f)}

\* `[] in formula`
HasEmpty(f) == \E i \in 1..Len(f) : f[i] = <<>>

(***************************************************************************)
(* Semantics: truth assignments to the variables and satisfiability.       *)
(***************************************************************************)
Valuations == [1..NumVars -> BOOLEAN]

LitTrue(v, l) == IF l > 0 THEN v[l] ELSE ~v[0 - l]

Satisfies(v, f) == \A i \in 1..Len(f) : \E j \in 1..Len(f[i]) : LitTrue(v, f[i][j])

Satisfiable(f) == \E v \in Valuations : Satisfies(v, f)

(***************************************************************************)
(* src/dpll.py: the simplification rules of dpll().                        *)
(***************************************************************************)
RECURSIVE ApplyFrom(_, _, _, _)
ApplyFrom(formula, literal, i, new_formula) ==
    IF i > Len(formula) THEN new_formula
    ELSE IF In(literal, formula[i])
         THEN ApplyFrom(formula, literal, i + 1, new_formula)
    ELSE IF In(negate(literal), formula[i])
         THEN LET new_clause == SelectSeq(formula[i], LAMBDA l : l # negate(literal))
              IN  IF new_clause = <<>> THEN None
                  ELSE ApplyFrom(formula, literal, i + 1, Append(new_formula, new_clause))
    ELSE ApplyFrom(formula, literal, i + 1, Append(new_formula, formula[i]))

\* A variant of apply_literal that keeps the negated literal in the clauses.
apply_literal_keeps_negation(formula, literal) ==
    SelectSeq(formula, LAMBDA c : ~In(literal, c))

\* apply_literal: drop the clauses holding the literal, strip its negation from
\* the others; None as soon as a clause is emptied.
apply_literal(formula, literal) == ApplyFrom(formula, literal, 1, <<>>)

\* find_unit_clause: the literal of the first clause of length 1, 0 for None.
find_unit_clause(formula) ==
    IF \E i \in 1..Len(formula) : Len(formula[i]) = 1
    THEN LET i == CHOOSE i \in 1..Len(formula) :
                      /\ Len(formula[i]) = 1
                      /\ \A j \in 1..(i - 1) : Len(formula[j]) # 1
         IN  formula[i][1]
    ELSE 0

RECURSIVE UnitLoop(_, _)
UnitLoop(formula, assignment) ==
    LET unit_clause == find_unit_clause(formula)
    IN  IF unit_clause # 0
        THEN LET next == apply_literal(formula, unit_clause)
             IN  IF next = None
                 THEN [formula |-> None, assignment |-> assignment \cup {unit_clause}]
                 ELSE UnitLoop(next, assignment \cup {unit_clause})
        ELSE [formula |-> formula, assignment |-> assignment]

\* A variant of unit_propagation that never propagates.
unit_propagation_skipped(formula) == [formula |-> formula, assignment |-> {}]

\* unit_propagation: apply unit literals until none is left or a clause empties.
unit_propagation(formula) == UnitLoop(formula, {})

\* unit_subsumption: None for None or a formula holding [], else the clauses
\* holding no assigned literal.
unit_subsumption(formula, assignment) ==
    IF formula = None \/ HasEmpty(formula) THEN None
    ELSE SelectSeq(formula, LAMBDA c : \A j \in 1..Len(c) : c[j] \notin assignment)

\* The first literal of the clause whose negation occurs nowhere in `formula`
\* (0 when there is none): the inner loop of monotone_literal_fixing.
FirstMonotone(clause, formula) ==
    IF \E j \in 1..Len(clause) : negate(clause[j]) \notin LitsOf(formula)
    THEN LET j == CHOOSE j \in 1..Len(clause) :
                      /\ negate(clause[j]) \notin LitsOf(formula)
                      /\ \A k \in 1..(j - 1) : negate(clause[k]) \in LitsOf(formula)
         IN  clause[j]
    ELSE 0

\* The outer loop runs over the list the function was called with, while the
\* test and the filter use the rebound, already reduced `formula`.
RECURSIVE MonotoneFrom(_, _, _, _)
MonotoneFrom(given, i, formula, assignment) ==
    IF i > Len(given) THEN [formula |-> formula, assignment |-> assignment]
    ELSE LET literal == FirstMonotone(given[i], formula)
         IN  IF literal # 0
             THEN MonotoneFrom(given, i + 1,
                               SelectSeq(formula, LAMBDA c : ~In(literal, c)),
                               assignment \cup {literal})
             ELSE MonotoneFrom(given, i + 1, formula, assignment)

\* monotone_literal_fixing
monotone_literal_fixing(formula) == MonotoneFrom(formula, 1, formula, {})

(***************************************************************************)
(* src/dpll.py choose_literal.  The weight of a clause of k literals is    *)
(* log(1 + 1/(4^k - 2^(k+1))); the literal with the largest sum wins, the  *)
(* first one inserted into the score table on equal sums.                  *)
(***************************************************************************)

\* 4^k - 2^(k+1) is 0 for k = 1: the division raises ZeroDivisionError.
ChooseLiteralFaults(formula) == \E i \in 1..Len(formula) : Len(formula[i]) = 1

\* The weight in millionths, rounded.  The logarithms of 9/8, 49/48, 225/224...
\* are rationally independent, so two sums of a few weights are equal exactly
\* when they add the same weights, and otherwise differ by far more than the
\* rounding here or in the floating-point sums of the code.
Weight(k) ==
    CASE k = 2 -> 117783
      [] k = 3 -> 20619
      [] k = 4 -> 4454
      [] k = 5 -> 1041
      [] k = 6 -> 252
      [] OTHER -> 0

\* The occurrences <<literal, k>> in the order the loops visit them.
RECURSIVE Occurrences(_, _)
Occurrences(formula, i) ==
    IF i > Len(formula) THEN <<>>
    ELSE [j \in 1..Len(formula[i]) |-> <<formula[i][j], Len(formula[i])>>]
             \o Occurrences(formula, i + 1)

\* The clause lengths whose weights are added to the literal's score, in order.
Addends(occ, lit) ==
    LET mine == SelectSeq(occ, LAMBDA o : o[1] = lit)
    IN  [n \in 1..Len(mine) |-> mine[n][2]]

RECURSIVE SumWeights(_)
SumWeights(ks) == IF ks = <<>> THEN 0 ELSE Weight(Head(ks)) + SumWeights(Tail(ks))

FirstIndex(occ, lit) == CHOOSE n \in 1..Len(occ) :
                            /\ occ[n][1] = lit
                            /\ \A m \in 1..(n - 1) : occ[m][1] # lit

\* A choice that is no literal of the formula.
choose_literal_absent(formula) == {NumVars + 1}

\* The literals choose_literal may return.  Literals of maximal score are tied
\* unless floating-point rounding separates them, which it can only do when the
\* same weights were added in a different order: such a literal may win over one
\* inserted earlier; one whose weights were added in the same order as an earlier
\* candidate's has the identical float and loses to it.
choose_literal(formula) ==
    LET occ == Occurrences(formula, 1)
        keys == {occ[n][1] : n \in 1..Len(occ)}
        literal_scores == [l \in keys |-> SumWeights(Addends(occ, l))]
        best == {l \in keys : \A m \in keys : literal_scores[m] <= literal_scores[l]}
    IN  {l \in best : \A m \in best :
            FirstIndex(occ, m) < FirstIndex(occ, l) => Addends(occ, m) # Addends(occ, l)}

(***************************************************************************)
(* Python sets of tuples.  tuple(sorted(resolvent)) is the ascending       *)
(* sequence of the literals.  Iterating a set yields its members in an     *)
(* order the language does not fix; the model lists them in lexicographic  *)
(* order.  Every use below (unit propagation, literal fixing, the pairwise *)
(* resolvents of a round) depends only on which clauses are listed.        *)
(***************************************************************************)
RECURSIVE Sorted(_)
Sorted(S) ==
    IF S = {} THEN <<>>
    ELSE LET m == CHOOSE x \in S : \A y \in S : x <= y
         IN  <<m>> \o Sorted(S \ {m})

SeqLess(a, b) ==
    \E n \in 1..(Len(b) + 1) :
        /\ n <= Len(a) + 1
        /\ \A k \in 1..(n - 1) : a[k] = b[k]
        /\ \/ n = Len(a) + 1 /\ n <= Len(b)
           \/ n <= Len(a) /\ n <= Len(b) /\ a[n] < b[n]

RECURSIVE ListOfSet(_)
ListOfSet(S) ==
    IF S = {} THEN <<>>
    ELSE LET m == CHOOSE x \in S : \A y \in S : x = y \/ SeqLess(x, y)
         IN  <<m>> \o ListOfSet(S \ {m})

(***************************************************************************)
(* src/resolution.py                                                       *)
(***************************************************************************)

\* A variant of resolve that removes only the literal resolved on in clause1.
resolve_one_sided(clause1, clause2, literal) ==
    (Range(clause1) \cup Range(clause2)) \ {literal}

\* resolve: list(set(clause1 + clause2) - {literal, -literal}), as a set
resolve(clause1, clause2, literal) ==
    (Range(clause1) \cup Range(clause2)) \ {literal, negate(literal)}

\* A variant of is_redundant_clause that finds no clause redundant.
is_redundant_clause_never(clause) == FALSE

\* is_redundant_clause, on the literals of a clause
is_redundant_clause(clause) == \E literal \in clause : negate(literal) \in clause

\* The loop of find_resolvents over the literals of c1.  The two engines differ
\* in one filter: src/dp.py also drops an empty resolvent (drop_empty).
RECURSIVE ResolventsFrom(_, _, _, _, _)
ResolventsFrom(c1, c2, n, resolvents, drop_empty) ==
    IF n > Len(c1) THEN resolvents
    ELSE IF In(negate(c1[n]), c2)
         THEN LET resolvent == resolve(c1, c2, c1[n])
              IN  IF /\ ~In(resolvent, resolvents)
                     /\ ~is_redundant_clause(resolvent)
                     /\ (drop_empty => resolvent # {})
                  THEN ResolventsFrom(c1, c2, n + 1, Append(resolvents, resolvent),
                                      drop_empty)
                  ELSE ResolventsFrom(c1, c2, n + 1, resolvents, drop_empty)
    ELSE ResolventsFrom(c1, c2, n + 1, resolvents, drop_empty)

\* src/resolution.py find_resolvents
find_resolvents(c1, c2) == ResolventsFrom(c1, c2, 1, <<>>, FALSE)

\* Every resolvent the pairs (i < j) of a round produce, with the find_resolvents
\* of src/dp.py (dp) or of src/resolution.py.
PairResolvents(cs, dp) ==
    UNION {Range(IF dp THEN ResolventsFrom(cs[p[1]], cs[p[2]], 1, <<>>, TRUE)
                 ELSE find_resolvents(cs[p[1]], cs[p[2]])) :
              p \in {q \in (1..Len(cs)) \X (1..Len(cs)) : q[1] < q[2]}}

\* (`list` is evaluated once, by binding it)
RoundResolvents(list, dp) == UNION {PairResolvents(cs, dp) : cs \in {list}}

(***************************************************************************)
(* src/dp.py                                                               *)
(***************************************************************************)

\* clause.remove(x): drops the first occurrence
RemoveFirst(clause, x) ==
    IF In(x, clause)
    THEN LET n == CHOOSE n \in 1..Len(clause) :
                      clause[n] = x /\ \A m \in 1..(n - 1) : clause[m] # x
         IN  SubSeq(clause, 1, n - 1) \o SubSeq(clause, n + 1, Len(clause))
    ELSE clause

\* One pass of the for loop over the unit clauses collected before the pass.
RECURSIVE DpUnitPass(_, _, _, _)
DpUnitPass(units, n, cs, assignment) ==
    IF n > Len(units) THEN [clauses |-> cs, assignment |-> assignment]
    ELSE LET literal == units[n][1]
             kept == SelectSeq(cs, LAMBDA c : ~In(literal, c))
         IN  DpUnitPass(units, n + 1,
                        [k \in 1..Len(kept) |-> RemoveFirst(kept[k], negate(literal))],
                        assignment \cup {literal})

RECURSIVE DpUnitLoop(_, _)
DpUnitLoop(cs, assignment) ==
    LET unit_clauses == SelectSeq(cs, LAMBDA c : Len(c) = 1)
    IN  IF unit_clauses = <<>> THEN [clauses |-> cs, assignment |-> assignment]
        ELSE LET pass == DpUnitPass(unit_clauses, 1, cs, assignment)
             IN  DpUnitLoop(pass.clauses, pass.assignment)

\* A variant of dp_unit_propagation that drops satisfied clauses only.
dp_unit_propagation_no_strip(cs) ==
    LET units == {c[1] : c \in {d \in Range(cs) : Len(d) = 1}}
    IN  [clauses |-> SelectSeq(cs, LAMBDA c : \A l \in units : ~In(l, c)),
         assignment |-> units]

\* src/dp.py unit_propagation
dp_unit_propagation(cs) == DpUnitLoop(cs, {})

\* src/dp.py monotone_literal_fixing: the literals are counted once, before the
\* loop, so a literal is fixed when its negation occurs nowhere in the clauses
\* the function was called with.
dp_monotone_literal_fixing(cs) ==
    LET counter == LitsOf(cs)
        fixed == {l \in counter : negate(l) \notin counter}
    IN  [clauses |-> SelectSeq(cs, LAMBDA c : \A l \in fixed : ~In(l, c)),
         assignment |-> fixed]

(***************************************************************************)
(* The inputs.  A clause lists distinct literals; it may be empty and it   *)
(* may hold a literal together with its negation.                          *)
(***************************************************************************)
ClausesOfWidth(k) ==
    {c \in [1..k -> Lits] : \A i, j \in 1..k : i # j => c[i] # c[j]}

InputClauses == UNION {ClausesOfWidth(k) : k \in 0..MaxWidth}

FormulasOver(cs, n) == UNION {[1..k -> cs] : k \in 0..n}

\* A formula that takes dpll's search past its first branch.  1 has the largest
\* score; with 1 true the clauses -1 3, -1 -3 become complementary units, and
\* the ternary clauses leave the four clauses over 2 and 3.  The inputs include
\* every selection of its clauses, in this order.
SearchBase ==
    << <<1, 2>>, <<1, 3>>, <<1, -2>>, <<-1, 3>>, <<-1, -3>>, <<-2, 3>>,
       <<-1, 2, 3>>, <<-1, 2, -3>>, <<-1, -2, 3>>, <<-1, -2, -3>> >>

RECURSIVE Selection(_, _, _)
Selection(base, picked, i) ==
    IF i > Len(base) THEN <<>>
    ELSE (IF i \in picked THEN <<base[i]>> ELSE <<>>) \o Selection(base, picked, i + 1)

SearchFormulas == {Selection(SearchBase, picked, 1) : picked \in SUBSET (1..Len(SearchBase))}

NoReturn == [sat |-> FALSE, formula |-> None]
NoResult == [returned |-> FALSE, sat |-> FALSE, value |-> None]

\* log_results / log_result: 1 and True are reported SAT, 0 and False UNSAT.
Returned(sat, value) == [returned |-> TRUE, sat |-> sat, value |-> value]

InitOn(formulas, engines) ==
    /\ input \in formulas
    /\ engine \in engines
    /\ pc = IF engine = "dpll" THEN "call" ELSE "loop"
    /\ clauses = IF engine = "dpll" THEN <<>> ELSE input
    /\ clause_set = IF engine = "resolution" THEN Range(input) ELSE {}
    /\ previous_clauses = {}
    /\ final_assignment = {}
    /\ rounds = 0
    /\ stack = <<>>
    /\ arg = IF engine = "dpll" THEN input ELSE None
    /\ ret = NoReturn
    /\ unit_assignments = {}
    /\ chosen = 0
    /\ result = NoResult

Init == InitOn(FormulasOver(InputClauses, MaxClauses) \cup SearchFormulas,
               {"resolution", "dp", "dpll"})

(***************************************************************************)
(* resolution(): one iteration of the while loop.                          *)
(***************************************************************************)
ResolutionRound ==
    /\ engine = "resolution" /\ pc = "loop"
    /\ LET resolvents == RoundResolvents(clauses, FALSE)
           new == {Sorted(r) : r \in resolvents} \ clause_set
       IN  IF {} \in resolvents
           THEN /\ pc' = "done" /\ result' = Returned(FALSE, None)       \* return 0
                /\ UNCHANGED <<clauses, clause_set>>
           ELSE IF new = {}
           THEN /\ pc' = "done" /\ result' = Returned(TRUE, None)        \* return 1
                /\ UNCHANGED <<clauses, clause_set>>
           ELSE /\ clause_set' = clause_set \cup new
                /\ clauses' = clauses \o ListOfSet(new)
                /\ UNCHANGED <<pc, result>>
    /\ rounds' = rounds + 1
    /\ UNCHANGED <<input, engine, previous_clauses, final_assignment, stack, arg, ret,
                   unit_assignments, chosen>>

(***************************************************************************)
(* davis_putnam(): one iteration of the while loop, or the return after it.*)
(* The try blocks guard calls that raise nothing.                          *)
(***************************************************************************)
DpReturn(verdict, value, cs, assigned) ==
    /\ pc' = "done"
    /\ result' = Returned(verdict = 1, value)
    /\ clauses' = cs
    /\ final_assignment' = assigned
    /\ UNCHANGED previous_clauses

DavisPutnamRound ==
    /\ engine = "dp" /\ pc = "loop"
    /\ IF clauses = <<>> THEN DpReturn(1, final_assignment, clauses, final_assignment)
       ELSE
       LET up == dp_unit_propagation(clauses)
           mono == dp_monotone_literal_fixing(up.clauses)
           assigned == final_assignment \cup up.assignment \cup mono.assignment
           resolvents == RoundResolvents(mono.clauses, TRUE)
           new_clauses == {Sorted(r) : r \in resolvents}
           merged == ListOfSet(Range(mono.clauses) \cup new_clauses)
           kept == SelectSeq(merged, LAMBDA c : ~is_redundant_clause(Range(c)))
           up2 == dp_unit_propagation(kept)
           mono2 == dp_monotone_literal_fixing(up2.clauses)
           assigned2 == assigned \cup up2.assignment \cup mono2.assignment
       IN  IF mono.clauses = <<>> THEN DpReturn(1, assigned, mono.clauses, assigned)
           ELSE IF HasEmpty(mono.clauses) THEN DpReturn(0, {}, mono.clauses, assigned)
           ELSE IF {} \in resolvents THEN DpReturn(0, {}, mono.clauses, assigned)
           ELSE IF new_clauses = previous_clauses
                THEN DpReturn(1, assigned, mono.clauses, assigned)
           ELSE IF mono2.clauses = <<>>
                THEN DpReturn(1, assigned2, mono2.clauses, assigned2)
           ELSE /\ clauses' = mono2.clauses
                /\ previous_clauses' = new_clauses
                /\ final_assignment' = assigned2
                /\ UNCHANGED <<pc, result>>
    /\ rounds' = rounds + 1
    /\ UNCHANGED <<input, engine, clause_set, stack, arg, ret, unit_assignments, chosen>>

(***************************************************************************)
(* dpll(): the recursion is a stack of frames, one per active call that    *)
(* has chosen its branching literal.                                       *)
(***************************************************************************)
Top == stack[Len(stack)]

Frame(given, formula, assignment, literal) ==
    [given |-> given, formula |-> formula, unit_assignments |-> assignment,
     literal |-> literal, branch |-> "pos"]

\* `return sat, formula` from the call on top of `callers`.
DpllReturn(callers, sat, formula) ==
    /\ stack' = callers
    /\ ret' = [sat |-> sat, formula |-> formula]
    /\ IF callers = <<>>
       THEN pc' = "done" /\ result' = Returned(sat, formula)
       ELSE pc' = "return" /\ UNCHANGED result
    /\ UNCHANGED arg

\* Lines 93-113: simplify the formula of a new call and choose the literal.
DpllSimplify ==
    /\ engine = "dpll" /\ pc = "call"
    /\ LET up == unit_propagation(arg)
           sub == unit_subsumption(up.formula, up.assignment)
           mono == monotone_literal_fixing(sub)
           formula == mono.formula
       IN  IF up.formula = None \/ HasEmpty(up.formula)
           THEN /\ DpllReturn(stack, FALSE, up.formula)
                /\ unit_assignments' = up.assignment
                /\ UNCHANGED chosen
           ELSE IF sub = None \/ HasEmpty(sub)
           THEN /\ DpllReturn(stack, FALSE, sub)
                /\ unit_assignments' = up.assignment
                /\ UNCHANGED chosen
           ELSE
           /\ unit_assignments' = up.assignment \cup mono.assignment
           /\ IF formula = <<>>
              THEN DpllReturn(stack, TRUE, formula) /\ UNCHANGED chosen
              ELSE IF HasEmpty(formula)
              THEN DpllReturn(stack, FALSE, formula) /\ UNCHANGED chosen
              ELSE
              /\ chosen' = chosen + 1
              /\ IF ChooseLiteralFaults(formula)
                 THEN pc' = "fault" /\ UNCHANGED <<stack, arg, ret, result>>
                 ELSE IF LitsOf(formula) = {}                   \* max(..., default=None)
                 THEN DpllReturn(stack, FALSE, formula)
                 ELSE \E literal \in choose_literal(formula) :
                        /\ stack' = Append(stack, Frame(arg, formula,
                                                        unit_assignments', literal))
                        /\ pc' = "frame"
                        /\ UNCHANGED <<arg, ret, result>>
    /\ UNCHANGED <<input, engine, clauses, clause_set, previous_clauses,
                   final_assignment, rounds>>

\* Lines 116-123 and 128-135: apply the literal in the given polarity, simplify,
\* and either return, call dpll on the simplified formula, or fall through.
DpllBranch(literal, fallthrough) ==
    LET callers == SubSeq(stack, 1, Len(stack) - 1)
        new_formula == apply_literal(Top.formula, literal)
        up == unit_propagation(new_formula)
        sub == unit_subsumption(up.formula, Top.unit_assignments)
        mono == monotone_literal_fixing(sub)
    IN  IF new_formula = None THEN fallthrough
        ELSE IF up.formula = None \/ HasEmpty(up.formula)
        THEN DpllReturn(callers, FALSE, up.formula)
        ELSE IF sub = None
        THEN pc' = "fault" /\ UNCHANGED <<stack, arg, ret, result>>
        ELSE /\ arg' = mono.formula
             /\ pc' = "call"
             /\ UNCHANGED <<stack, ret, result>>

DpllTryPositive ==
    /\ engine = "dpll" /\ pc = "frame" /\ Top.branch = "pos"
    /\ DpllBranch(Top.literal,
                  /\ stack' = [stack EXCEPT ![Len(stack)].branch = "neg"]
                  /\ UNCHANGED <<pc, arg, ret, result>>)
    /\ UNCHANGED <<input, engine, clauses, clause_set, previous_clauses,
                   final_assignment, rounds, unit_assignments, chosen>>

DpllTryNegative ==
    /\ engine = "dpll" /\ pc = "frame" /\ Top.branch = "neg"
    /\ DpllBranch(negate(Top.literal),
                  DpllReturn(SubSeq(stack, 1, Len(stack) - 1), FALSE, Top.formula))
    /\ UNCHANGED <<input, engine, clauses, clause_set, previous_clauses,
                   final_assignment, rounds, unit_assignments, chosen>>

\* Lines 123-125 and 135-139: the recursive call has returned to the top frame.
DpllReturned ==
    /\ engine = "dpll" /\ pc = "return"
    /\ LET callers == SubSeq(stack, 1, Len(stack) - 1)
       IN  IF ret.sat THEN DpllReturn(callers, TRUE, ret.formula)
           ELSE IF Top.branch = "pos"
           THEN /\ stack' = [stack EXCEPT ![Len(stack)].branch = "neg"]
                /\ pc' = "frame"
                /\ UNCHANGED <<arg, ret, result>>
           ELSE DpllReturn(callers, FALSE, Top.formula)
    /\ UNCHANGED <<input, engine, clauses, clause_set, previous_clauses,
                   final_assignment, rounds, unit_assignments, chosen>>

NextDpll == DpllSimplify \/ DpllTryPositive \/ DpllTryNegative \/ DpllReturned

Next == ResolutionRound \/ DavisPutnamRound \/ NextDpll

Spec == Init /\ [][Next]_vars

(***************************************************************************)
(* find_resolvents() of either file, called on its own with a pair of      *)
(* clauses: input = <<c1, c2>>, and result.value is the list it returns.   *)
(***************************************************************************)
FindEngines == {"resolution.find_resolvents", "dp.find_resolvents"}

PairClauses == UNION {ClausesOfWidth(k) : k \in 0..PairWidth}

InitPairs == InitOn(PairClauses \X PairClauses, FindEngines)

FindResolvents ==
    /\ engine \in FindEngines /\ pc = "loop"
    /\ pc' = "done"
    /\ result' = [returned |-> TRUE, sat |-> FALSE,
                  value |-> ResolventsFrom(input[1], input[2], 1, <<>>,
                                           engine = "dp.find_resolvents")]
    /\ UNCHANGED <<input, engine, clauses, clause_set, previous_clauses,
                   final_assignment, rounds, stack, arg, ret, unit_assignments,
                   chosen>>

SpecResolvents == InitPairs /\ [][FindResolvents]_vars

(***************************************************************************)
(* Termination measures: a bound on the steps an engine still takes.       *)
(***************************************************************************)
RECURSIVE Pow(_, _)
Pow(b, n) == IF n = 0 THEN 1 ELSE b * Pow(b, n - 1)

\* resolution(): a round that goes on adds a sorted clause over the literals of
\* the input that clause_set did not hold.
ResolutionVariant ==
    1 + Cardinality({S \in SUBSET LitsOf(input) : Sorted(S) \notin clause_set})

\* davis_putnam(): a round that goes on eliminates a variable, or else adds a
\* clause without complementary literals, or else drops the input clauses with
\* complementary literals, or else makes previous_clauses the resolvents of the
\* round to come.
TupleBound == Pow(2 * NumVars + 1, NumVars)

Proper(cs) == {c \in Range(cs) : ~is_redundant_clause(Range(c))}

DpStall ==
    IF Proper(clauses) # Range(clauses) THEN 2
    ELSE LET simplified == dp_monotone_literal_fixing(dp_unit_propagation(clauses).clauses)
             resolvents == RoundResolvents(simplified.clauses, TRUE)
         IN  IF previous_clauses # {Sorted(r) : r \in resolvents} THEN 1 ELSE 0

DavisPutnamVariant ==
    1 + DpStall + 3 * (TupleBound - Cardinality(Proper(clauses)))
      + (3 * TupleBound + 3) * Cardinality(VarsOf(clauses))

\* dpll(): a call on n variables takes at most CallSteps(n) steps: one to
\* simplify and, for each polarity, one to branch, a call on n - 1 variables and
\* one to take its return.
CallSteps(n) == 6 * Pow(2, n) - 5

BranchSteps(frame) == 2 + CallSteps(Cardinality(VarsOf(frame.formula)) - 1)

\* What a frame still does once the call it waits for has returned.
AfterReturn(frame) == IF frame.branch = "pos" THEN 1 + BranchSteps(frame) ELSE 1

RECURSIVE PendingSteps(_, _)
PendingSteps(frames, k) ==
    IF k > Len(frames) THEN 0 ELSE AfterReturn(frames[k]) + PendingSteps(frames, k + 1)

DpllVariant ==
    CASE pc = "call" -> CallSteps(Cardinality(VarsOf(arg))) + PendingSteps(stack, 1)
      [] pc = "frame" -> PendingSteps(stack, 1) - 1 + BranchSteps(Top)
      [] OTHER -> PendingSteps(stack, 1)

Variant ==
    IF pc = "done" THEN 0
    ELSE IF engine = "resolution" THEN ResolutionVariant
    ELSE IF engine = "dp" THEN DavisPutnamVariant
    ELSE DpllVariant

(***************************************************************************)
(* The claims.                                                             *)
(***************************************************************************)
DpllDone == engine = "dpll" /\ pc = "done"

\* C1: on a formula of non-empty clauses dpll returns False (UNSAT) only if no
\* truth assignment satisfies the formula: a contradiction in the branch of the
\* chosen literal fails that branch alone.
C1_DpllUnsatIsSound ==
    (DpllDone /\ ~HasEmpty(input) /\ ~result.sat) => ~Satisfiable(input)

\* C2: dpll returns True (SAT) only if some truth assignment makes a literal
\* true in every clause of the input.
C2_DpllSatIsSound == (DpllDone /\ result.sat) => Satisfiable(input)

\* SAT is returned through two calls of dpll.
C2_Witness ==
    /\ DpllDone /\ result.sat /\ Satisfiable(input)
    /\ chosen >= 2 /\ Len(input) >= 5

\* C3: when dpll reports SAT, every clause of the input holds a literal that the
\* value returned with the verdict makes true.
C3_DpllReturnsModel ==
    (DpllDone /\ result.sat) =>
        \A i \in 1..Len(input) : \E j \in 1..Len(input[i]) :
            input[i][j] \in Range(result.value)

\* C4: on a formula of non-empty clauses, resolution() and davis_putnam() return
\* 0 (UNSAT) only if the formula is unsatisfiable.
C4_ResolutionUnsatIsSound ==
    (/\ engine \in {"resolution", "dp"} /\ pc = "done"
     /\ ~HasEmpty(input) /\ ~result.sat) => ~Satisfiable(input)

\* C5: on a formula of non-empty clauses, resolution() returns 1 (SAT), having
\* reached a round without a new resolvent, only if the formula is satisfiable.
C5_ResolutionSatIsSound ==
    (/\ engine = "resolution" /\ pc = "done"
     /\ ~HasEmpty(input) /\ result.sat) => Satisfiable(input)

\* Saturation reached after rounds that did add resolvents.
C5_Witness ==
    /\ engine = "resolution" /\ pc = "done" /\ result.sat
    /\ ~HasEmpty(input) /\ rounds >= 3 /\ Len(clauses) > Len(input)

\* C6: on a formula of non-empty clauses, davis_putnam returns 1 (SAT) only if
\* the formula is satisfiable, also when it stops because a round generated the
\* resolvents of the round before.
C6_DavisPutnamSatIsSound ==
    (/\ engine = "dp" /\ pc = "done"
     /\ ~HasEmpty(input) /\ result.sat) => Satisfiable(input)

\* The "no progress made" exit, on a repeated non-empty set of resolvents.
C6_Witness ==
    /\ engine = "dp" /\ pc = "done" /\ result.sat /\ ~HasEmpty(input)
    /\ clauses # <<>> /\ previous_clauses # {} /\ rounds >= 2

\* C7: on a formula that holds an empty clause every engine reports UNSAT, and
\* dpll does so without choosing a branching literal.
C7_EmptyClauseIsUnsat ==
    (pc = "done" /\ HasEmpty(input)) =>
        ~result.sat /\ (engine = "dpll" => chosen = 0)

\* A recursive call of dpll gets a formula over strictly fewer variables than
\* the formula its caller got.
C8_RecursiveCallShrinks ==
    (engine = "dpll" /\ pc = "call" /\ stack # <<>>) =>
        Cardinality(VarsOf(arg)) < Cardinality(VarsOf(Top.given))

\* C8: every engine terminates: each step of resolution(), davis_putnam() and
\* dpll() lowers a natural number, so no run goes on for ever, and every recursive
\* call of dpll gets a formula over strictly fewer variables than its caller's.
C8_Termination ==
    /\ [][Variant' < Variant]_vars
    /\ [](Variant \in Nat)
    /\ []C8_RecursiveCallShrinks

\* A search two calls deep has returned.
C8_Witness == DpllDone /\ chosen >= 2 /\ ~result.sat

\* C9: on a formula of non-empty clauses no engine raises; choose_literal is
\* evaluated only on formulas whose clauses all have two literals or more.
C9_NoFault ==
    ~HasEmpty(input) =>
        /\ pc # "fault"
        /\ \A k \in 1..Len(stack) : \A i \in 1..Len(stack[k].formula) :
               Len(stack[k].formula[i]) >= 2

\* choose_literal has run on what unit propagation left of an input with a unit
\* clause.
C9_Witness ==
    /\ engine = "dpll" /\ pc = "frame" /\ ~HasEmpty(input)
    /\ \E i \in 1..Len(input) : Len(input[i]) = 1

\* C10: the assignment a dpll call gathers from unit propagation and monotone
\* literal fixing never holds a literal together with its negation.
C10_AssignmentConsistent ==
    engine = "dpll" => \A l \in unit_assignments : negate(l) \notin unit_assignments

FindDone == engine \in FindEngines /\ pc = "done"

\* The literals of c1 whose negation is in c2: the complementary pairs.
SharedPairs == {l \in Range(input[1]) : In(negate(l), input[2])}

\* C11, as stated: for a pair of clauses that share more than one complementary
\* literal pair, find_resolvents returns more than one resolvent.
C11_SeveralResolvents ==
    (FindDone /\ Cardinality(SharedPairs) > 1) => Len(result.value) > 1

\* C11, amended: find_resolvents returns at most one resolvent for any pair of
\* clauses, and none when the clauses clash on two variables or more: every
\* candidate then keeps a complementary pair and is filtered as redundant.
C11_AtMostOneResolvent ==
    FindDone =>
        /\ Len(result.value) <= 1
        /\ Cardinality({Abs(l) : l \in SharedPairs}) > 1 => result.value = <<>>

\* Two complementary pairs, and a non-empty resolvent that survives both filters.
C11_Witness ==
    /\ FindDone /\ Cardinality(SharedPairs) > 1
    /\ result.value # <<>> /\ {} \notin Range(result.value)

====
